---------------------------- MODULE Spec2Model ----------------------------
(* peritus: the terminal dashboard of src/main.rs.                         *)
(* The UI driver (main's loop), the record store kept in ./data/db.json    *)
(* and the selection cursor (ListState.selected) as a state machine.       *)
EXTENDS Integers, Sequences, FiniteSets, TLC

-----------------------------------------------------------------------------
(* Bounds of the model *)

\* longest record sequence the container holds (add is capped there)
MaxLen == 3
\* record ids are drawn from 1..MaxId (the code draws from 0..=9999999)
MaxId == 3
\* width of usize in the model (64 on the real target), kept so that the
\* wrapped values stay far above MaxLen
UsizeBits == 3

\* most events the channel holds at once (mpsc::channel() is unbounded)
MaxChan == 2

\* tick_rate = Duration::from_millis(200), counted in units of 100 ms
TickRate == 2

UsizeModulus == 2 ^ UsizeBits
UsizeMax == UsizeModulus - 1

-----------------------------------------------------------------------------
(* Data *)

\* struct Expert; name and created_at are random or clock values just as id
\* is, and are folded into id
Expert == [id : 1..MaxId, category : {"areas"}, age : {6}]

NoRec == [id |-> 0, category |-> "none", age |-> 0]

\* enum MenuItem
MenuItem == {"Home", "Experts"}

\* KeyCode of an Input event, as far as the match of main tells them apart
KeyCodes == {"q", "h", "e", "a", "d", "Down", "Up", "Other"}

\* enum Event<I>: Input(key) is written as its key code, Tick as "Tick"
Event == KeyCodes \cup {"Tick"}

\* Option<usize>::None of ListState.selected
NoSel == -1

\* the build profile decides what an arithmetic overflow does
Builds == {"debug", "release"}

BoundedSeq(S, n) == UNION {[1..k -> S] : k \in 0..n}

\* the content of DB_PATH: a serialised Vec<Expert>, something that does
\* not parse, or no readable file
JsonFile(recs) == [st |-> "json", recs |-> recs]
CorruptFile == [st |-> "corrupt", recs |-> <<>>]
MissingFile == [st |-> "missing", recs |-> <<>>]

Files == {JsonFile(s) : s \in BoundedSeq(Expert, MaxLen)} \cup {CorruptFile, MissingFile}

\* what the operating system does with one fs::write
WriteOutcomes == {"ok", "fail_open", "fail_partial"}

VARIABLES
    active_menu_item,   \* MenuItem
    selected,           \* expert_list_state.selected(): 0..UsizeMax or NoSel
    file,               \* content of DB_PATH
    build,              \* the profile the binary was built with
    pc,                 \* "draw" | "recv" | "done" | "panicked"
    raw_mode,           \* terminal raw mode enabled
    panic,              \* message of the panic that ended main, or "none"
    hist,               \* the event handled in this iteration and the state it met
    streak,             \* run of navigation commands since the last mutation
    rendered,           \* the draws completed since the last event, and what they showed
    chan,               \* the events sent on tx and not yet received on rx
    mpc,                \* the spawned thread: "timeout" | "poll" | "tick" | "panicked"
    elapsed,            \* last_tick.elapsed(), in units of 100 ms
    timeout,            \* the timeout the thread passed to event::poll
    waited,             \* the time the thread has spent in event::poll
    nsent,              \* number of events sent so far, modulo SeqModulus
    nrecv               \* number of events received so far, modulo SeqModulus

\* the state of main
ui == <<active_menu_item, selected, file, build, pc, raw_mode, panic, hist, streak, rendered>>

\* the state of the spawned thread, the clock and the channel
sys == <<chan, mpc, elapsed, timeout, waited, nsent, nrecv>>

vars == <<ui, sys>>


-----------------------------------------------------------------------------
(* The record store: read_db, add_random_expert_to_db, remove_expert_at_index *)

Ok(v) == [ok |-> TRUE, err |-> "none", val |-> v]
Err(e) == [ok |-> FALSE, err |-> e, val |-> <<>>]

\* fs::read_to_string(DB_PATH)? then serde_json::from_str(&db_content)?
read_db(f) ==
    IF f.st = "missing" THEN Err("ReadDBError")
    ELSE IF f.st = "corrupt" THEN Err("ParseDBError")
    ELSE Ok(f.recs)

\* fs::write(DB_PATH, &serde_json::to_vec(&parsed)?): the file is created or
\* truncated, then written; a failure leaves the old content or a partial one
fs_write(f, parsed, w) ==
    IF w = "ok" THEN [ok |-> TRUE, file |-> JsonFile(parsed)]
    ELSE IF w = "fail_open" THEN [ok |-> FALSE, file |-> f]
    ELSE [ok |-> FALSE, file |-> CorruptFile]

\* Vec::insert(0, x) where push was meant
VecInsertFront(v, x) == <<x>> \o v

\* Vec::push
VecPush(v, x) == Append(v, x)

\* Vec::swap_remove(index) where remove was meant: the last element takes
\* the place of the removed one
VecSwapRemove(v, index) ==
    [j \in 1..(Len(v) - 1) |-> IF j = index + 1 THEN v[Len(v)] ELSE v[j]]

\* Vec::remove(index), index counted from 0, for index < len
VecRemove(v, index) == SubSeq(v, 1, index) \o SubSeq(v, index + 2, Len(v))

\* the subtraction left out
usize_sub_forgotten(a, b, bld) == [panic |-> FALSE, val |-> a]

\* a - b on usize: a debug build panics on overflow, a release build wraps
usize_sub(a, b, bld) ==
    IF a >= b THEN [panic |-> FALSE, val |-> a - b]
    ELSE IF bld = "debug" THEN [panic |-> TRUE, val |-> 0]
    ELSE [panic |-> FALSE, val |-> (a - b) + UsizeModulus]

\* add_random_expert_to_db() with the record the generator produced
add_random_expert_to_db(f, random_expert, w) ==
    LET r == read_db(f) IN
    IF ~r.ok THEN [ok |-> FALSE, err |-> r.err, val |-> <<>>, file |-> f]
    ELSE LET parsed == VecPush(r.val, random_expert)
             wr == fs_write(f, parsed, w) IN
         IF ~wr.ok
         THEN [ok |-> FALSE, err |-> "ReadDBError", val |-> <<>>, file |-> wr.file]
         ELSE [ok |-> TRUE, err |-> "none", val |-> parsed, file |-> wr.file]

\* remove_expert_at_index with the removal guarded by selected < parsed.len():
\* an index past the end removes nothing and the file is written back
remove_expert_at_index_unchecked(sel, f, bld, w) ==
    IF sel = NoSel
    THEN [ok |-> TRUE, err |-> "none", panic |-> "none", selected |-> sel, file |-> f]
    ELSE
    LET r == read_db(f) IN
    IF ~r.ok
    THEN [ok |-> FALSE, err |-> r.err, panic |-> "none", selected |-> sel, file |-> f]
    ELSE
    LET parsed == IF sel < Len(r.val) THEN VecRemove(r.val, sel) ELSE r.val
        wr == fs_write(f, parsed, w)
        dec == usize_sub(sel, 1, bld) IN
    IF ~wr.ok
    THEN [ok |-> FALSE, err |-> "ReadDBError", panic |-> "none",
          selected |-> sel, file |-> wr.file]
    ELSE IF dec.panic
    THEN [ok |-> FALSE, err |-> "none", panic |-> "attempt to subtract with overflow",
          selected |-> sel, file |-> wr.file]
    ELSE [ok |-> TRUE, err |-> "none", panic |-> "none",
          selected |-> dec.val, file |-> wr.file]

\* remove_expert_at_index(&mut expert_list_state): the returned Result, the
\* panic raised inside it (if any), the selection and the file it leaves
remove_expert_at_index(sel, f, bld, w) ==
    IF sel = NoSel
    THEN [ok |-> TRUE, err |-> "none", panic |-> "none", selected |-> sel, file |-> f]
    ELSE
    LET r == read_db(f) IN
    IF ~r.ok
    THEN [ok |-> FALSE, err |-> r.err, panic |-> "none", selected |-> sel, file |-> f]
    ELSE IF sel >= Len(r.val)
    THEN [ok |-> FALSE, err |-> "none", panic |-> "removal index out of range",
          selected |-> sel, file |-> f]
    ELSE
    LET parsed == VecRemove(r.val, sel)
        wr == fs_write(f, parsed, w)
        dec == usize_sub(sel, 1, bld) IN
    IF ~wr.ok
    THEN [ok |-> FALSE, err |-> "ReadDBError", panic |-> "none",
          selected |-> sel, file |-> wr.file]
    ELSE IF dec.panic
    THEN [ok |-> FALSE, err |-> "none", panic |-> "attempt to subtract with overflow",
          selected |-> sel, file |-> wr.file]
    ELSE [ok |-> TRUE, err |-> "none", panic |-> "none",
          selected |-> dec.val, file |-> wr.file]

-----------------------------------------------------------------------------
(* The selection cursor: the KeyCode::Down and KeyCode::Up arms of main *)

\* KeyCode::Down wrapping one step late: selected >= amount_experts
select_next_late_wrap(sel, f, bld) ==
    IF sel = NoSel THEN [panic |-> "none", selected |-> sel]
    ELSE
    LET r == read_db(f) IN
    IF ~r.ok THEN [panic |-> "can fetch expert list", selected |-> sel]
    ELSE IF sel >= Len(r.val) THEN [panic |-> "none", selected |-> 0]
    ELSE [panic |-> "none", selected |-> sel + 1]

\* KeyCode::Down
select_next(sel, f, bld) ==
    IF sel = NoSel THEN [panic |-> "none", selected |-> sel]
    ELSE
    LET r == read_db(f) IN
    IF ~r.ok THEN [panic |-> "can fetch expert list", selected |-> sel]
    ELSE
    LET amount_experts == Len(r.val)
        last == usize_sub(amount_experts, 1, bld) IN
    IF last.panic THEN [panic |-> "attempt to subtract with overflow", selected |-> sel]
    ELSE IF sel >= last.val THEN [panic |-> "none", selected |-> 0]
    ELSE [panic |-> "none", selected |-> sel + 1]

\* KeyCode::Up
select_previous(sel, f, bld) ==
    IF sel = NoSel THEN [panic |-> "none", selected |-> sel]
    ELSE
    LET r == read_db(f) IN
    IF ~r.ok THEN [panic |-> "can fetch expert list", selected |-> sel]
    ELSE
    LET amount_experts == Len(r.val) IN
    IF sel > 0 THEN [panic |-> "none", selected |-> sel - 1]
    ELSE LET last == usize_sub(amount_experts, 1, bld) IN
         IF last.panic
         THEN [panic |-> "attempt to subtract with overflow", selected |-> sel]
         ELSE [panic |-> "none", selected |-> last.val]

\* render_experts(&expert_list_state): the panic it raises, or "none"
render_experts(sel, f) ==
    LET r == read_db(f) IN
    IF ~r.ok THEN "can fetch expert list"
    ELSE IF sel = NoSel THEN "there is always a selected expert"
    ELSE IF sel >= Len(r.val) THEN "exists"
    ELSE "none"

-----------------------------------------------------------------------------
(* History kept for stating the properties: it never feeds back into the  *)
(* program's state                                                         *)

NoHist == [ev |-> "none", selected |-> NoSel, file |-> MissingFile, view |-> "Home",
           rec |-> NoRec, ret |-> Ok(<<>>)]

\* the event the match of main has just handled, and the state it met
Handled(e, rec, ret) ==
    [ev |-> e, selected |-> selected, file |-> file, view |-> active_menu_item,
     rec |-> rec, ret |-> ret]

\* no draw since the last event
NoRender == [n |-> 0, view |-> "Home", selected |-> NoSel, file |-> MissingFile]

\* one more completed draw, of the state as it is
OneMoreRender ==
    [n |-> rendered.n + 1, view |-> active_menu_item, selected |-> selected, file |-> file]

NoStreak == [dir |-> "none", start |-> NoSel, n |-> 0]

\* one more navigation command in direction dir: it extends the run of
\* commands of that direction, which is counted up to the store's length
Extend(dir) ==
    IF streak.dir = dir /\ streak.n < Len(file.recs)
    THEN [streak EXCEPT !.n = @ + 1]
    ELSE [dir |-> dir, start |-> selected, n |-> 1]

-----------------------------------------------------------------------------
(* main *)

Init ==
    /\ active_menu_item = "Home"
    /\ selected = 0
    /\ file \in Files
    /\ build \in Builds
    /\ pc = "draw"
    /\ raw_mode = TRUE
    /\ panic = "none"
    /\ hist = NoHist
    /\ streak = NoStreak
    /\ rendered = NoRender
    /\ chan = <<>>
    /\ mpc = "timeout"
    /\ elapsed = 0
    /\ timeout = 0
    /\ waited = 0
    /\ nsent = 0
    /\ nrecv = 0

\* the failure dropped instead of unwrapped: the loop goes on
PanicsIgnored(msg) ==
    /\ pc' = "draw"
    /\ panic' = panic

\* a panic unwinds main: the loop is over, the terminal stays in raw mode
Panics(msg) ==
    /\ pc' = "panicked"
    /\ panic' = msg

\* the arm going straight back to rx.recv(), the draw left before the loop
ContinuesToReceive ==
    /\ pc' = "recv"
    /\ panic' = panic

Continues ==
    /\ pc' = "draw"
    /\ panic' = panic

\* terminal.draw(..): the Experts view calls render_experts
Draw ==
    /\ pc = "draw"
    /\ LET msg == IF active_menu_item = "Experts"
                  THEN render_experts(selected, file) ELSE "none" IN
       IF msg = "none"
       THEN pc' = "recv" /\ panic' = panic /\ rendered' = OneMoreRender
       ELSE Panics(msg) /\ rendered' = rendered
    /\ hist' = NoHist
    /\ UNCHANGED <<active_menu_item, selected, file, build, raw_mode, streak>>

\* KeyCode::Char('q')
KeyQuit ==
    /\ pc = "recv"
    /\ raw_mode' = FALSE
    /\ pc' = "done"
    /\ rendered' = NoRender
    /\ hist' = Handled("q", NoRec, Ok(<<>>))
    /\ streak' = NoStreak
    /\ UNCHANGED <<active_menu_item, selected, file, build, panic>>

\* KeyCode::Char('h') that also puts the cursor back on the first row
KeyHomeResetsCursor ==
    /\ pc = "recv"
    /\ active_menu_item' = "Home"
    /\ selected' = 0
    /\ Continues
    /\ rendered' = NoRender
    /\ hist' = Handled("h", NoRec, Ok(<<>>))
    /\ UNCHANGED <<file, build, raw_mode, streak>>

\* KeyCode::Char('h')
KeyHome ==
    /\ pc = "recv"
    /\ active_menu_item' = "Home"
    /\ Continues
    /\ rendered' = NoRender
    /\ hist' = Handled("h", NoRec, Ok(<<>>))
    /\ UNCHANGED <<selected, file, build, raw_mode, streak>>

\* KeyCode::Char('e')
KeyExperts ==
    /\ pc = "recv"
    /\ active_menu_item' = "Experts"
    /\ Continues
    /\ rendered' = NoRender
    /\ hist' = Handled("e", NoRec, Ok(<<>>))
    /\ UNCHANGED <<selected, file, build, raw_mode, streak>>

\* KeyCode::Char('a') that also selects the record it appended
KeyAddSelectsNew ==
    /\ pc = "recv"
    /\ file.st = "json" => Len(file.recs) < MaxLen
    /\ \E random_expert \in Expert, w \in WriteOutcomes :
         LET r == add_random_expert_to_db(file, random_expert, w) IN
         /\ file' = r.file
         /\ selected' = IF r.ok THEN Len(r.val) - 1 ELSE selected
         /\ IF r.ok THEN Continues ELSE Panics("can add new random expert")
         /\ rendered' = NoRender
         /\ hist' = Handled("a", random_expert, [ok |-> r.ok, err |-> r.err, val |-> r.val])
    /\ streak' = NoStreak
    /\ UNCHANGED <<active_menu_item, build, raw_mode>>

\* KeyCode::Char('a'): add_random_expert_to_db().expect(..)
KeyAdd ==
    /\ pc = "recv"
    /\ file.st = "json" => Len(file.recs) < MaxLen
    /\ \E random_expert \in Expert, w \in WriteOutcomes :
         LET r == add_random_expert_to_db(file, random_expert, w) IN
         /\ file' = r.file
         /\ IF r.ok THEN Continues ELSE Panics("can add new random expert")
         /\ rendered' = NoRender
         /\ hist' = Handled("a", random_expert, [ok |-> r.ok, err |-> r.err, val |-> r.val])
    /\ streak' = NoStreak
    /\ UNCHANGED <<active_menu_item, selected, build, raw_mode>>

\* KeyCode::Char('d'): remove_expert_at_index(&mut expert_list_state).expect(..)
KeyDelete ==
    /\ pc = "recv"
    /\ \E w \in WriteOutcomes :
         LET r == remove_expert_at_index(selected, file, build, w) IN
         /\ file' = r.file
         /\ selected' = r.selected
         /\ IF r.panic # "none" THEN Panics(r.panic)
            ELSE IF ~r.ok THEN Panics("can remove expert")
            ELSE Continues
         /\ rendered' = NoRender
         /\ hist' = Handled("d", NoRec, [ok |-> r.ok, err |-> r.err, val |-> <<>>])
    /\ streak' = NoStreak
    /\ UNCHANGED <<active_menu_item, build, raw_mode>>

\* KeyCode::Down
KeyDown ==
    /\ pc = "recv"
    /\ LET r == select_next(selected, file, build) IN
       /\ selected' = r.selected
       /\ IF r.panic # "none" THEN Panics(r.panic) ELSE Continues
       /\ streak' = IF r.panic # "none" THEN NoStreak ELSE Extend("Down")
    /\ rendered' = NoRender
    /\ hist' = Handled("Down", NoRec, Ok(<<>>))
    /\ UNCHANGED <<active_menu_item, file, build, raw_mode>>

\* KeyCode::Up
KeyUp ==
    /\ pc = "recv"
    /\ LET r == select_previous(selected, file, build) IN
       /\ selected' = r.selected
       /\ IF r.panic # "none" THEN Panics(r.panic) ELSE Continues
       /\ streak' = IF r.panic # "none" THEN NoStreak ELSE Extend("Up")
    /\ rendered' = NoRender
    /\ hist' = Handled("Up", NoRec, Ok(<<>>))
    /\ UNCHANGED <<active_menu_item, file, build, raw_mode>>

\* any other key: _ => {}
KeyOther ==
    /\ pc = "recv"
    /\ Continues
    /\ rendered' = NoRender
    /\ hist' = Handled("Other", NoRec, Ok(<<>>))
    /\ UNCHANGED <<active_menu_item, selected, file, build, raw_mode, streak>>

\* Event::Tick that puts the cursor back on the first row
TickEventResetsCursor ==
    /\ pc = "recv"
    /\ selected' = 0
    /\ Continues
    /\ rendered' = NoRender
    /\ hist' = Handled("Tick", NoRec, Ok(<<>>))
    /\ UNCHANGED <<active_menu_item, file, build, raw_mode, streak>>

\* Event::Tick => {}
TickEvent ==
    /\ pc = "recv"
    /\ Continues
    /\ rendered' = NoRender
    /\ hist' = Handled("Tick", NoRec, Ok(<<>>))
    /\ UNCHANGED <<active_menu_item, selected, file, build, raw_mode, streak>>

\* one turn of main's loop: the draw, then the event rx.recv() returns
Next ==
    \/ Draw /\ UNCHANGED sys
    \/ KeyQuit /\ UNCHANGED sys
    \/ KeyHome /\ UNCHANGED sys
    \/ KeyExperts /\ UNCHANGED sys
    \/ KeyAdd /\ UNCHANGED sys
    \/ KeyDelete /\ UNCHANGED sys
    \/ KeyDown /\ UNCHANGED sys
    \/ KeyUp /\ UNCHANGED sys
    \/ KeyOther /\ UNCHANGED sys
    \/ TickEvent /\ UNCHANGED sys

Spec == Init /\ [][Next]_vars

-----------------------------------------------------------------------------
(* The spawned thread (event multiplexer), the channel and the clock *)

\* sequence numbers stamped on the events, to tell them apart in the channel
SeqModulus == MaxChan + 2

\* the keys pressed while the whole system is observed
Pressed == {"q", "e", "Down"}

\* the initial containers of those observations
SysFiles ==
    {JsonFile(<<>>), JsonFile(<<[id |-> 1, category |-> "areas", age |-> 6]>>), MissingFile}

\* rx lives until main returns or unwinds
RxAlive == pc \in {"draw", "recv"}

\* tick_rate.checked_sub(last_tick.elapsed()) with the full period each time
poll_timeout_full(el) == TickRate

\* tick_rate.checked_sub(last_tick.elapsed()).unwrap_or_else(|| 0)
poll_timeout(el) == IF TickRate >= el THEN TickRate - el ELSE 0

\* rx.recv() handing out the newest event first
rx_recv_newest(c) == [event |-> c[Len(c)], rest |-> SubSeq(c, 1, Len(c) - 1)]

\* rx.recv() on a channel that holds an event: the oldest one
rx_recv(c) == [event |-> Head(c), rest |-> Tail(c)]

\* tx.send(e) while rx lives
tx_send(c, e) == Append(c, [ev |-> e, seq |-> nsent])

\* let timeout = ..
MuxTimeout ==
    /\ mpc = "timeout"
    /\ timeout' = poll_timeout(elapsed)
    /\ waited' = 0
    /\ mpc' = "poll"
    /\ UNCHANGED <<chan, elapsed, nsent, nrecv>>
    /\ UNCHANGED ui

\* event::poll(timeout) returns true, event::read() gives a key: the thread
\* sends Input(key), and panics in expect when rx is gone
MuxPollKey ==
    /\ mpc = "poll"
    /\ \E key \in Pressed :
         IF RxAlive
         THEN /\ Len(chan) < MaxChan
              /\ chan' = tx_send(chan, key)
              /\ nsent' = (nsent + 1) % SeqModulus
              /\ mpc' = "tick"
         ELSE /\ mpc' = "panicked"
              /\ UNCHANGED <<chan, nsent>>
    /\ UNCHANGED <<elapsed, timeout, waited, nrecv>>
    /\ UNCHANGED ui

\* event::poll(timeout) returns true, event::read() gives no key (mouse, resize)
MuxPollOther ==
    /\ mpc = "poll"
    /\ mpc' = "tick"
    /\ UNCHANGED <<chan, elapsed, timeout, waited, nsent, nrecv>>
    /\ UNCHANGED ui

\* event::poll(timeout) returns false: the timeout has run out
MuxPollTimeout ==
    /\ mpc = "poll"
    /\ waited >= timeout
    /\ mpc' = "tick"
    /\ UNCHANGED <<chan, elapsed, timeout, waited, nsent, nrecv>>
    /\ UNCHANGED ui

\* if last_tick.elapsed() >= tick_rate { if let Ok(_) = tx.send(Tick) { last_tick = now } }
MuxTick ==
    /\ mpc = "tick"
    /\ IF elapsed >= TickRate /\ RxAlive
       THEN /\ Len(chan) < MaxChan
            /\ chan' = tx_send(chan, "Tick")
            /\ nsent' = (nsent + 1) % SeqModulus
            /\ elapsed' = 0
       ELSE UNCHANGED <<chan, nsent, elapsed>>
    /\ mpc' = "timeout"
    /\ UNCHANGED <<timeout, waited, nrecv>>
    /\ UNCHANGED ui

\* 100 ms pass: only while the thread waits in event::poll and its timeout
\* has not run out (every other step of the thread takes no time)
TimePasses ==
    /\ mpc = "poll"
    /\ waited < timeout
    /\ elapsed' = elapsed + 1
    /\ waited' = waited + 1
    /\ UNCHANGED <<chan, mpc, timeout, nsent, nrecv>>
    /\ UNCHANGED ui

\* match rx.recv()? { .. }: the oldest event of the channel is taken and handled
Receive ==
    /\ pc = "recv"
    /\ chan # <<>>
    /\ chan' = rx_recv(chan).rest
    /\ nrecv' = (nrecv + 1) % SeqModulus
    /\ UNCHANGED <<mpc, elapsed, timeout, waited, nsent>>
    /\ LET e == rx_recv(chan).event.ev IN
       \/ e = "q" /\ KeyQuit
       \/ e = "h" /\ KeyHome
       \/ e = "e" /\ KeyExperts
       \/ e = "a" /\ KeyAdd
       \/ e = "d" /\ KeyDelete
       \/ e = "Down" /\ KeyDown
       \/ e = "Up" /\ KeyUp
       \/ e = "Other" /\ KeyOther
       \/ e = "Tick" /\ TickEvent

\* terminal.draw(..) of main while the thread runs
DrawSys == Draw /\ UNCHANGED sys

InitSys == Init /\ file \in SysFiles

NextSys ==
    \/ DrawSys
    \/ Receive
    \/ MuxTimeout
    \/ MuxPollKey
    \/ MuxPollOther
    \/ MuxPollTimeout
    \/ MuxTick
    \/ TimePasses

\* main and the spawned thread, interleaved
SpecSys == InitSys /\ [][NextSys]_vars

\* both threads are scheduled fairly and time goes on
SpecFair ==
    /\ SpecSys
    /\ WF_vars(DrawSys) /\ WF_vars(Receive)
    /\ WF_vars(MuxTimeout) /\ WF_vars(MuxPollTimeout) /\ WF_vars(MuxTick)
    /\ SF_vars(TimePasses)

TypeOK ==
    /\ active_menu_item \in MenuItem
    /\ selected \in 0..UsizeMax \cup {NoSel}
    /\ file \in Files
    /\ build \in Builds
    /\ pc \in {"draw", "recv", "done", "panicked"}
    /\ raw_mode \in BOOLEAN
    /\ (pc = "panicked") <=> (panic # "none")
    /\ rendered.n \in {0, 1}
    /\ chan \in Seq([ev : Event, seq : 0..(SeqModulus - 1)]) /\ Len(chan) <= MaxChan
    /\ mpc \in {"timeout", "poll", "tick", "panicked"}
    /\ elapsed \in Nat /\ timeout \in 0..TickRate /\ waited \in 0..TickRate
    /\ nsent \in 0..(SeqModulus - 1) /\ nrecv \in 0..(SeqModulus - 1)

-----------------------------------------------------------------------------
(* Properties *)

\* the store as load() returns it
Store == file.recs
\* the store the handled event met
OldStore == hist.file.recs

\* sequence s without the element at position i (counted from 0)
Without(s, i) == [j \in 1..(Len(s) - 1) |-> IF j <= i THEN s[j] ELSE s[j + 1]]

ValidCursor(sel, len) == sel # NoSel /\ 0 <= sel /\ sel < len

\* the event was handled on a readable store and no file operation failed
StoreWorked == hist.file.st = "json" /\ hist.ret.err # "ReadDBError"

\* the draw that follows would not panic
RenderOk == active_menu_item = "Home" \/ render_experts(selected, file) = "none"

\* C1: in every reachable state with a non-empty store a selection exists
\* and 0 <= cursor < len(store), also right after a delete.
C1_CursorInRange ==
    (file.st = "json" /\ Len(Store) > 0) => ValidCursor(selected, Len(Store))

\* C2: on an empty store navigate-down and navigate-up raise no error,
\* change neither cursor, view nor store, and the loop goes on to re-render.
C2_EmptyNavigationNoOp ==
    (hist.ev \in {"Down", "Up"} /\ hist.file = JsonFile(<<>>)) =>
        /\ pc = "draw" /\ panic = "none"
        /\ selected = hist.selected
        /\ active_menu_item = hist.view
        /\ file = hist.file
        /\ RenderOk

\* C3: a delete at cursor i with 0 < i < L, L >= 2, leaves the store without
\* element i and the cursor at i - 1, a valid position of the shorter store.
C3_DeleteMovesCursorBack ==
    (/\ hist.ev = "d" /\ StoreWorked
     /\ Len(OldStore) >= 2
     /\ 0 < hist.selected /\ hist.selected < Len(OldStore)) =>
        /\ pc = "draw" /\ panic = "none"
        /\ file = JsonFile(Without(OldStore, hist.selected))
        /\ selected = hist.selected - 1
        /\ ValidCursor(selected, Len(Store))

C3_Witness ==
    /\ hist.ev = "d" /\ pc = "draw"
    /\ Len(OldStore) = 3 /\ hist.selected = 1
    /\ OldStore[1].id = 1 /\ OldStore[2].id = 2 /\ OldStore[3].id = 3
    /\ Store = <<OldStore[1], OldStore[3]>>
    /\ selected = 0

\* C4: whenever the store is empty the selection cursor is absent.
C4_EmptyStoreNoSelection ==
    (file.st = "json" /\ Len(Store) = 0) => selected = NoSel

\* C5: removing the record at a valid index i and loading again gives a
\* sequence one shorter: the old one without element i, the rest in order.
C5_RemoveThenLoad ==
    (/\ hist.ev = "d" /\ StoreWorked
     /\ ValidCursor(hist.selected, Len(OldStore))) =>
        LET loaded == read_db(file) IN
        /\ loaded.ok
        /\ Len(loaded.val) = Len(OldStore) - 1
        /\ \A j \in 1..Len(loaded.val) :
             loaded.val[j] = IF j <= hist.selected THEN OldStore[j] ELSE OldStore[j + 1]

C5_Witness ==
    /\ hist.ev = "d" /\ StoreWorked
    /\ Len(OldStore) = 3 /\ hist.selected = 0
    /\ OldStore[1].id = 1 /\ OldStore[2].id = 2 /\ OldStore[3].id = 3
    /\ read_db(file).val = <<OldStore[2], OldStore[3]>>

\* C6: an add followed by a load gives a sequence one longer, the new record
\* last and the old records before it in order; add returns that sequence.
C6_AppendThenLoad ==
    (hist.ev = "a" /\ StoreWorked) =>
        LET loaded == read_db(file) IN
        /\ loaded.ok
        /\ Len(loaded.val) = Len(OldStore) + 1
        /\ loaded.val[Len(loaded.val)] = hist.rec
        /\ \A j \in 1..Len(OldStore) : loaded.val[j] = OldStore[j]
        /\ hist.ret.ok /\ hist.ret.val = loaded.val

C6_Witness ==
    /\ hist.ev = "a" /\ StoreWorked /\ pc = "draw"
    /\ Len(OldStore) = 2 /\ OldStore[1].id = 1 /\ OldStore[2].id = 2
    /\ hist.rec.id = 3
    /\ read_db(file).val = <<OldStore[1], OldStore[2], hist.rec>>

\* C7: a removal at an index that is no position of the current sequence
\* (index >= length, any index on an empty store) ends in the index out of
\* range failure and leaves the container as it was.
C7_RemoveOutOfRange ==
    (/\ hist.ev = "d" /\ hist.file.st = "json"
     /\ hist.selected # NoSel /\ hist.selected >= Len(OldStore)) =>
        /\ pc = "panicked" /\ panic = "removal index out of range"
        /\ ~hist.ret.ok
        /\ file = hist.file

C7_Witness ==
    /\ hist.ev = "d" /\ hist.file = JsonFile(<<>>) /\ hist.selected = 0
    /\ panic = "removal index out of range"
    /\ file = JsonFile(<<>>)

\* C8: navigate-down on a store of length L: nothing changes without a
\* selection; otherwise the cursor becomes 0 when it was L - 1 and cursor + 1
\* in every other case; store and view are unchanged.
C8_NextWraps ==
    (hist.ev = "Down" /\ hist.file.st = "json") =>
        /\ pc = "draw" /\ panic = "none"
        /\ file = hist.file /\ active_menu_item = hist.view
        /\ selected = IF hist.selected = NoSel THEN NoSel
                      ELSE IF hist.selected = Len(OldStore) - 1 THEN 0
                      ELSE hist.selected + 1

\* C9: navigate-up on a store of length L: nothing changes without a
\* selection; otherwise the cursor becomes L - 1 when it was 0 and cursor - 1
\* in every other case; store and view are unchanged.
C9_PreviousWraps ==
    (hist.ev = "Up" /\ hist.file.st = "json") =>
        /\ pc = "draw" /\ panic = "none"
        /\ file = hist.file /\ active_menu_item = hist.view
        /\ selected = IF hist.selected = NoSel THEN NoSel
                      ELSE IF hist.selected = 0 THEN Len(OldStore) - 1
                      ELSE hist.selected - 1

\* C10: on a non-empty store of length L, L navigate-down commands in a row
\* (no add or delete between them) starting from a valid cursor bring the
\* cursor back to where it started; so do L navigate-up commands.
C10_NavigationCycle ==
    (/\ file.st = "json" /\ Len(Store) > 0
     /\ streak.dir \in {"Down", "Up"}
     /\ streak.n = Len(Store)
     /\ ValidCursor(streak.start, Len(Store))) =>
        selected = streak.start

C10_Witness ==
    /\ file.st = "json" /\ Len(Store) = 3
    /\ streak = [dir |-> "Down", start |-> 1, n |-> 3]
    /\ hist.ev = "Down" /\ hist.selected = 0
    /\ selected = 1

\* C11: the add command appends exactly one record and leaves the view
\* and the cursor as they were, whatever they and the store's length are.
C11_AddLeavesViewAndCursor ==
    hist.ev = "a" =>
        /\ active_menu_item = hist.view
        /\ selected = hist.selected
        /\ StoreWorked =>
              /\ pc = "draw"
              /\ file.st = "json"
              /\ Len(Store) = Len(OldStore) + 1

C11_Witness ==
    /\ hist.ev = "a" /\ StoreWorked
    /\ hist.view = "Experts" /\ active_menu_item = "Experts"
    /\ hist.selected = 1 /\ selected = 1
    /\ Len(OldStore) = 2 /\ Len(Store) = 3

\* C12: only go-home and go-experts change the view (to Home and to
\* Experts); every other command and Tick leave it, and go-home and
\* go-experts leave the store and the cursor.
C12_ViewChangesOnlyByMenu ==
    [][/\ active_menu_item' # active_menu_item => (pc = "recv" /\ hist'.ev \in {"h", "e"})
       /\ (pc = "recv" /\ hist'.ev = "h") =>
             (active_menu_item' = "Home" /\ selected' = selected /\ file' = file)
       /\ (pc = "recv" /\ hist'.ev = "e") =>
             (active_menu_item' = "Experts" /\ selected' = selected /\ file' = file)]_vars

C12_Witness ==
    /\ hist.ev = "e" /\ hist.view = "Home" /\ active_menu_item = "Experts"
    /\ Len(Store) = 2 /\ file = hist.file
    /\ hist.selected = 1 /\ selected = 1

\* C13: a Tick changes neither view, cursor nor store; all it brings about
\* is the next draw, which succeeds.
C13_TickChangesNothing ==
    hist.ev = "Tick" =>
        /\ active_menu_item = hist.view
        /\ selected = hist.selected
        /\ file = hist.file
        /\ pc = "draw" /\ panic = "none"
        /\ rendered.n = 0 /\ RenderOk

C13_Witness ==
    /\ hist.ev = "Tick" /\ pc = "draw"
    /\ active_menu_item = "Experts" /\ Len(Store) = 3 /\ selected = 2
    /\ hist.selected = 2 /\ file = hist.file

\* the panics that report a failure of the store: a read, parse or write
\* error, or a position outside the sequence in a removal or detail lookup
StoreFailurePanics ==
    {"can add new random expert", "can remove expert", "can fetch expert list",
     "removal index out of range", "exists", "there is always a selected expert"}

\* C14: the loop ends only by a quit processed while running (nothing else
\* ends it unless the store fails), the terminal mode is restored at that
\* step, and once it has ended nothing changes any more.
C14_OnlyQuitEndsLoop ==
    /\ pc = "done" => (hist.ev = "q" /\ raw_mode = FALSE)
    /\ (pc \notin {"draw", "recv"} /\ panic \notin StoreFailurePanics) => pc = "done"
    /\ raw_mode = FALSE => pc = "done"
    /\ pc = "done" => ~ENABLED Next

C18_StoreFailureIsFatal ==
    [][LET readFailed ==
               /\ file.st # "json"
               /\ \/ pc = "draw" /\ active_menu_item = "Experts"
                  \/ pc = "recv" /\ hist'.ev \in {"a", "d", "Down", "Up"}
           writeFailed ==
               /\ file.st = "json"
               /\ pc = "recv" /\ hist'.ev \in {"a", "d"}
               /\ hist'.ret.err = "ReadDBError"
       IN (readFailed \/ writeFailed) =>
              /\ pc' = "panicked" /\ panic' \in StoreFailurePanics
              /\ selected' = selected
              /\ active_menu_item' = active_menu_item
              /\ readFailed => file' = file]_vars

C18_Witness ==
    /\ pc = "panicked" /\ panic = "can remove expert"
    /\ hist.ev = "d" /\ hist.ret.err = "ReadDBError"
    /\ Len(OldStore) = 2 /\ file = CorruptFile
    /\ hist.selected = 1 /\ selected = 1
    /\ active_menu_item = "Experts"

\* C19: whenever the Experts view is drawn a selection exists and the
\* cursor is a position of the store, so the detail lookup finds a record.
C19_ExpertsViewHasRecord ==
    /\ (pc = "draw" /\ active_menu_item = "Experts" /\ file.st = "json") =>
          ValidCursor(selected, Len(Store))
    /\ panic \notin {"exists", "there is always a selected expert"}


\* the events in the channel are those sent and not yet received, oldest first
InFlightInOrder ==
    \A i \in 1..Len(chan) : chan[i].seq = (nrecv + i - 1) % SeqModulus

\* a step of the spawned thread or of its clock
MuxStep == mpc' # mpc \/ elapsed' # elapsed

\* C16: under every interleaving of the multiplexer thread and the driver,
\* the driver handles the events in the order they were sent, each once and
\* none skipped (the event handled is the oldest one in flight, it leaves
\* the channel, a send goes to the end), and no step of the multiplexer
\* changes the store, the cursor or the view.
C16_EventsInOrder ==
    [][/\ InFlightInOrder'
       /\ (nsent' # nsent) =>
             /\ chan' = Append(chan, chan'[Len(chan')])
             /\ chan'[Len(chan')].seq = nsent
             /\ nrecv' = nrecv
       /\ (pc = "recv" /\ pc' # "recv") =>
             /\ chan # <<>>
             /\ Head(chan).seq = nrecv
             /\ hist'.ev = Head(chan).ev
             /\ chan' = Tail(chan)
             /\ nrecv' = (nrecv + 1) % SeqModulus
       /\ (nrecv' # nrecv \/ Len(chan') < Len(chan)) => (pc = "recv" /\ pc' # "recv")
       /\ MuxStep => UNCHANGED <<file, selected, active_menu_item>>
      ]_vars

C16_Witness ==
    /\ hist.ev = "e" /\ nrecv = 2 /\ nsent = 3
    /\ chan = <<[ev |-> "q", seq |-> 2]>>

\* the step sends a Tick
TickSent == nsent' # nsent /\ chan'[Len(chan')].ev = "Tick"

\* C17: with the steps of the thread taking no time, a Tick is sent only when
\* a full tick period has passed since the previous Tick (or since start),
\* and no more than a period ever passes without one while the driver
\* runs: the clock never goes beyond the period, input or not, and the Tick
\* sent at the end of the period starts the next one.
C17_TickPeriod ==
    [][/\ elapsed' <= TickRate
       /\ TickSent => (elapsed = TickRate /\ elapsed' = 0)
       /\ (elapsed' < elapsed) => TickSent
       /\ (mpc = "tick" /\ mpc' # "tick" /\ elapsed = TickRate /\ RxAlive) => TickSent
      ]_vars

C17_Witness ==
    /\ nsent = 2 /\ nrecv = 0 /\ elapsed = 0
    /\ chan = <<[ev |-> "Tick", seq |-> 0], [ev |-> "Tick", seq |-> 1]>>

\* C20: under fair scheduling of the multiplexer thread every blocking
\* receive of the running driver returns, also when no key is pressed, and
\* the screen is rendered again and again until quit (or until a failure of
\* the store ends the session).
C20_RendersUntilQuit ==
    /\ (pc = "recv") ~> (pc # "recv")
    /\ \/ []<>(rendered.n = 1)
       \/ <>(pc = "done")
       \/ <>(panic \in StoreFailurePanics)

=============================================================================
